---- MODULE Spec2Model ----
(***************************************************************************)
(* Model of the BNP Paribas report parser (src/bnp.go).                    *)
(*                                                                         *)
(* Strings are sequences of one-character strings, so that concatenation,  *)
(* digit tests, number parsing and date parsing are computed and not       *)
(* assumed.  Every component of the pipeline has its own specification     *)
(* over the same variables; the variables a specification does not use     *)
(* keep their initial value.                                                *)
(*                                                                         *)
(* Amounts are small integers: int64 wrap-around of the running total is   *)
(* not modelled.  time.Parse is modelled as in Go >= 1.6 (a day that does  *)
(* not exist in its month is an error).                                    *)
(***************************************************************************)
EXTENDS Integers, Sequences, FiniteSets, TLC

VARIABLES
    pc,        \* position of the component under check
    ops,       \* []*Op handed to convertOpsToValues
    values,    \* []Value returned by convertOpsToValues
    err,       \* error returned by the operation ("nil" when none)
    pages,     \* per-page []*Op lists, as extractOps returns them
    allOps,    \* extractPDFOps: allOps
    lines,     \* []Line handed to parseOps
    parsed,    \* []*Op returned by parseOps
    lineIdx,   \* parseOps: index of the next line
    lineOp,    \* parseOps: what the last line parsed into
    stripped,  \* what stripValue returned for the line
    kept,      \* []*Op returned by filterOnSourceColumn
    files,     \* extractFileValues: the documents of the batch
    fileIdx,   \* extractFileValues: index of the next document
    failed,    \* extractFileValues: failed
    allValues, \* extractFileValues: allValues
    graph,     \* walk: the pdf.Value graph (children of every node)
    stack,     \* walk: the walkNode activations, root first
    seen,      \* walk: seen
    visits     \* walk: callback invocations, in order

vars == <<pc, ops, values, err, pages, allOps, lines, parsed,
          lineIdx, lineOp, stripped, kept,
          files, fileIdx, failed, allValues, graph, stack, seen, visits>>

-----------------------------------------------------------------------------
(* Strings *)

DigitChars == <<"0", "1", "2", "3", "4", "5", "6", "7", "8", "9">>

IsDigit(c) == \E i \in 1..10 : DigitChars[i] = c

DigitVal(c) == (CHOOSE i \in 1..10 : DigitChars[i] = c) - 1

\* reDigits = ^\d+$
reDigits(s) == Len(s) > 0 /\ \A i \in 1..Len(s) : IsDigit(s[i])

RECURSIVE Atoi(_)
\* strconv.ParseInt(s, 10, 64) on a string of digits
Atoi(s) ==
    IF Len(s) = 0 THEN 0
    ELSE Atoi(SubSeq(s, 1, Len(s) - 1)) * 10 + DigitVal(s[Len(s)])

RECURSIVE Itoa(_)
\* fmt's %d of a non-negative integer
Itoa(n) ==
    IF n < 10 THEN <<DigitChars[n + 1]>>
    ELSE Itoa(n \div 10) \o <<DigitChars[(n % 10) + 1]>>

\* fmt's %d of an integer
FmtD(n) == IF n < 0 THEN <<"-">> \o Itoa(0 - n) ELSE Itoa(n)

SeqsUpTo(S, n) == UNION {[1..k -> S] : k \in 0..n}

-----------------------------------------------------------------------------
(* Dates: time.Parse(dateFormat, s), Time.Year, Time.After *)

IsLeap(y) == y % 4 = 0 /\ (y % 100 # 0 \/ y % 400 = 0)

daysIn(m, y) ==
    IF m = 2 THEN (IF IsLeap(y) THEN 29 ELSE 28)
    ELSE IF m \in {4, 6, 9, 11} THEN 30 ELSE 31

NoDate == [ok |-> FALSE, y |-> 0, m |-> 0, d |-> 0]

\* time.Parse("02.01.2006", s): two digits, ".", two digits, ".", four
\* digits, nothing after; month in 1..12, day in 1..daysIn(month, year).
TimeParse(s) ==
    IF /\ Len(s) = 10
       /\ IsDigit(s[1]) /\ IsDigit(s[2]) /\ s[3] = "."
       /\ IsDigit(s[4]) /\ IsDigit(s[5]) /\ s[6] = "."
       /\ \A i \in 7..10 : IsDigit(s[i])
    THEN LET d == Atoi(SubSeq(s, 1, 2))
             m == Atoi(SubSeq(s, 4, 5))
             y == Atoi(SubSeq(s, 7, 10))
         IN IF m >= 1 /\ m <= 12 /\ d >= 1 /\ d <= daysIn(m, y)
            THEN [ok |-> TRUE, y |-> y, m |-> m, d |-> d]
            ELSE NoDate
    ELSE NoDate

\* a.After(b)
After(a, b) ==
    \/ a.y > b.y
    \/ a.y = b.y /\ a.m > b.m
    \/ a.y = b.y /\ a.m = b.m /\ a.d > b.d

-----------------------------------------------------------------------------
(* convertOpsToValues *)

Op(date, source, col, value, hasValue, isTotal) ==
    [Date |-> date, Source |-> source, SourceCol |-> col, Value |-> value,
     HasValue |-> hasValue, IsTotal |-> isTotal]

Failure(e) == [values |-> <<>>, err |-> e]

\* the three checks made before the loop
BoundaryErrorNoLast(o) ==
    IF Len(o) < 2 THEN "not enough operations"
    ELSE IF ~o[1].IsTotal THEN "first operation is not an account record"
    ELSE "nil"

BoundaryError(o) ==
    IF Len(o) < 2 THEN "not enough operations"
    ELSE IF ~o[1].IsTotal THEN "first operation is not an account record"
    ELSE IF ~o[Len(o)].IsTotal THEN "last operation is not an account record"
    ELSE "nil"

\* total += op.Value
AddChangeDropped(total, op) == total

AddChange(total, op) == total + op.Value

\* the year of a change-record: the previous Value's, or the next one
ResolveNoRollover(date, prevDate) ==
    TimeParse(date \o <<".">> \o FmtD(prevDate.y))

ResolveChangeDate(date, prevDate) ==
    LET first == TimeParse(date \o <<".">> \o FmtD(prevDate.y))
    IN IF ~first.ok THEN first
       ELSE IF After(prevDate, first)
            THEN TimeParse(date \o <<".">> \o FmtD(prevDate.y + 1))
            ELSE first

\* a reconciler that accepts any stated total
TotalNeverChecked(op, total) == TRUE

\* a total-record passes when its amount is the running total
TotalMatches(op, total) == op.Value = total

RECURSIVE ConvertLoop(_, _, _, _)
ConvertLoop(o, i, total, vals) ==
    IF i > Len(o) THEN [values |-> vals, err |-> "nil"]
    ELSE
      LET op == o[i] IN
      IF op.IsTotal
      THEN IF ~TotalMatches(op, total)
           THEN Failure("running total does not match account record")
           ELSE LET date == TimeParse(op.Date)
                IN IF ~date.ok THEN Failure("parse")
                   ELSE ConvertLoop(o, i + 1, total,
                          Append(vals, [Date |-> date, Source |-> op.Source,
                                        Value |-> total]))
      ELSE LET t == AddChange(total, op)
           IN IF Len(vals) = 0
              THEN Failure("operation without an account record")
              ELSE LET date == ResolveChangeDate(op.Date, vals[Len(vals)].Date)
                   IN IF ~date.ok THEN Failure("parse")
                      ELSE ConvertLoop(o, i + 1, t,
                             Append(vals, [Date |-> date, Source |-> op.Source,
                                           Value |-> t]))

convertOpsToValues(o) ==
    LET e == BoundaryError(o)
    IN IF e # "nil" THEN Failure(e)
       ELSE ConvertLoop(o, 1, o[1].Value, <<>>)

SOLDE_CHARS == <<"S", "O", "L", "D", "E">>

TOTAL_DES_MONTANTS ==
    <<"T", "O", "T", "A", "L", " ", "D", "E", "S", " ", "M", "O", "N", "T", "A", "N", "T", "S">>

BNP_CAPITAL ==
    <<"B", "N", "P", " ", "P", "A", "R", "I", "B", "A", "S", " ", "S", "A", " ", ":", " ", "c", "a", "p", "i", "t", "a", "l", " ", "d", "e">>

MONTANT_AUTORISATION ==
    <<"M", "o", "n", "t", "a", "n", "t", " ", "d", "e", " ", "v", "o", "t", "r", "e", " ", "a", "u", "t", "o", "r", "i", "s", "a", "t", "i", "o", "n">>

-----------------------------------------------------------------------------
(* Words, lines and the line parsers *)

Word(col, str) == [Column |-> col, S |-> str]

RECURSIVE joinWords(_)
\* strings.Join of the words' strings with a single space
joinWords(words) ==
    IF Len(words) = 0 THEN <<>>
    ELSE IF Len(words) = 1 THEN words[1].S
    ELSE words[1].S \o <<" ">> \o joinWords(Tail(words))

\* a Line as extractStreamLines builds it from the words of one row
Line(words) == [Value |-> joinWords(words), Words |-> words]

HasPrefix(str, prefix) ==
    Len(str) >= Len(prefix) /\ SubSeq(str, 1, Len(prefix)) = prefix

SignThreshold == 500

\* stripValue: a trailing "123,45" or "12.345,67"
stripValue(words) ==
    LET lw == Len(words)
        no == [words |-> words, v |-> 0, ok |-> FALSE]
    IN IF lw < 3 THEN no
       ELSE
         LET head == words[lw - 2].S
             dot == words[lw - 1].S
             tail == words[lw].S
         IN IF reDigits(head) /\ dot = <<",">> /\ reDigits(tail) /\ Len(tail) = 2
            THEN LET five == /\ lw > 4
                             /\ words[lw - 3].S = <<".">>
                             /\ reDigits(words[lw - 4].S)
                     n == IF five THEN 5 ELSE 3
                     num == (IF five THEN words[lw - 4].S ELSE <<>>) \o head \o tail
                     v == Atoi(num)
                 IN [words |-> SubSeq(words, 1, lw - n),
                     v |-> IF words[lw - n + 1].Column < SignThreshold
                           THEN 0 - v ELSE v,
                     ok |-> TRUE]
            ELSE no

\* stripDate: a leading "13.06"
stripDate(words) ==
    IF Len(words) < 3 THEN [words |-> words, date |-> <<>>]
    ELSE LET head == words[1].S
             dot == words[2].S
             tail == words[3].S
         IN IF ~reDigits(head) \/ dot # <<".">> \/ ~reDigits(tail)
            THEN [words |-> words, date |-> <<>>]
            ELSE [words |-> SubSeq(words, 4, Len(words)),
                  date |-> head \o dot \o tail]

\* \d{2}\.\d{2}\.\d{4} at position p of str
FullDateAt(str, p) ==
    /\ p + 9 <= Len(str)
    /\ IsDigit(str[p]) /\ IsDigit(str[p + 1]) /\ str[p + 2] = "."
    /\ IsDigit(str[p + 3]) /\ IsDigit(str[p + 4]) /\ str[p + 5] = "."
    /\ \A i \in (p + 6)..(p + 9) : IsDigit(str[i])

\* reStart = ^SOLDE\s+.*(\d{2}\.\d{2}\.\d{4}): the positions the group can
\* start at; the greedy .* takes the last one
reStartMatches(str) ==
    IF HasPrefix(str, SOLDE_CHARS) /\ Len(str) > 6 /\ str[6] = " "
    THEN {p \in 7..Len(str) : FullDateAt(str, p)}
    ELSE {}

ZeroOp == Op(<<>>, <<>>, 0, 0, FALSE, FALSE)

NoOp == [kind |-> "nil", op |-> ZeroOp]

NoStrip == [words |-> <<>>, v |-> 0, ok |-> FALSE]

parseTotalLine(line) ==
    LET m == reStartMatches(line.Value)
    IN IF m = {} THEN NoOp
       ELSE LET p == CHOOSE x \in m : \A y \in m : y <= x
                r == stripValue(line.Words)
            IN IF ~r.ok THEN [kind |-> "err", op |-> ZeroOp]
               ELSE [kind |-> "op",
                     op |-> Op(SubSeq(line.Value, p, p + 9), joinWords(r.words),
                               -1, r.v, TRUE, TRUE)]

parseOpLine(line) ==
    LET d == stripDate(line.Words)
        r == stripValue(d.words)
        again == stripValue(r.words)
        words == r.words
    IN IF again.ok THEN NoOp
       ELSE [kind |-> "op",
             op |-> Op(d.date, joinWords(words),
                       IF Len(words) > 0 THEN words[1].Column ELSE 0,
                       IF r.ok THEN r.v ELSE 0, r.ok, FALSE)]

\* the merge of a dateless op into the last op
Merge(prev, op) ==
    LET withValue == IF op.HasValue
                     THEN [prev EXCEPT !.Value = op.Value, !.HasValue = TRUE]
                     ELSE prev
    IN IF op.Source # <<>> /\ op.SourceCol = prev.SourceCol
       THEN [withValue EXCEPT !.Source = prev.Source \o op.Source]
       ELSE withValue

\* one iteration of the loop of parseOps over ops so far:
\* ctl is "continue", "break" or "error"
parseOpsStep(line, sofar) ==
    IF HasPrefix(line.Value, TOTAL_DES_MONTANTS)
    THEN [ctl |-> "continue", ops |-> sofar, op |-> NoOp]
    ELSE IF \/ HasPrefix(line.Value, BNP_CAPITAL)
            \/ HasPrefix(line.Value, MONTANT_AUTORISATION)
    THEN [ctl |-> "break", ops |-> sofar, op |-> NoOp]
    ELSE
      LET t == parseTotalLine(line)
          o == IF t.kind = "nil" THEN parseOpLine(line) ELSE t
      IN IF t.kind = "err" THEN [ctl |-> "error", ops |-> <<>>, op |-> NoOp]
         ELSE IF o.kind = "nil" THEN [ctl |-> "continue", ops |-> sofar, op |-> o]
         ELSE IF o.op.Date # <<>>
         THEN [ctl |-> "continue", ops |-> Append(sofar, o.op), op |-> o]
         ELSE IF Len(sofar) > 0 /\ (o.op.HasValue \/ o.op.Source # <<>>)
         THEN [ctl |-> "continue",
               ops |-> [sofar EXCEPT ![Len(sofar)] = Merge(sofar[Len(sofar)], o.op)],
               op |-> o]
         ELSE [ctl |-> "continue", ops |-> sofar, op |-> o]

-----------------------------------------------------------------------------
(* filterOnSourceColumn *)

RECURSIVE MostPopular(_, _, _)
\* the first loop: acc is [cols, maxCol, maxCount]
MostPopular(o, i, acc) ==
    IF i > Len(o) THEN acc
    ELSE IF o[i].SourceCol >= 0
    THEN LET c == o[i].SourceCol
             n == (IF c \in DOMAIN acc.cols THEN acc.cols[c] ELSE 0) + 1
             cols == [x \in (DOMAIN acc.cols) \cup {c} |->
                         IF x = c THEN n ELSE acc.cols[x]]
         IN IF n > acc.maxCount
            THEN MostPopular(o, i + 1, [cols |-> cols, maxCol |-> c, maxCount |-> n])
            ELSE MostPopular(o, i + 1, [acc EXCEPT !.cols = cols])
    ELSE MostPopular(o, i + 1, acc)

filterOnSourceColumn(o) ==
    LET maxCol == MostPopular(o, 1, [cols |-> <<>>, maxCol |-> -1,
                                     maxCount |-> -1]).maxCol
        Keep(op) == op.SourceCol < 0 \/ op.SourceCol = maxCol
    IN SelectSeq(o, Keep)

-----------------------------------------------------------------------------
(* Variables left alone by the specifications that do not use them *)

convVars  == <<ops, values>>
dedupVars == <<pages, allOps>>
parseVars == <<lines, parsed, lineIdx, lineOp, stripped, kept>>
batchVars == <<files, fileIdx, failed, allValues>>
walkVars  == <<graph, stack, seen, visits>>

ConvIdle  == ops = <<>> /\ values = <<>>
DedupIdle == pages = <<>> /\ allOps = <<>>
ParseIdle ==
    /\ lines = <<>> /\ parsed = <<>> /\ kept = <<>>
    /\ lineIdx = 0 /\ lineOp = NoOp /\ stripped = NoStrip
BatchIdle == files = <<>> /\ fileIdx = 0 /\ failed = 0 /\ allValues = <<>>
WalkIdle  == graph = <<>> /\ stack = <<>> /\ seen = {} /\ visits = <<>>

-----------------------------------------------------------------------------
(* Specification of convertOpsToValues: any short record sequence *)

MaxOps == 3

ChangeDates ==
    { <<"0", "2", ".", "0", "1">>,      \* 02.01
      <<"3", "1", ".", "1", "2">>,      \* 31.12
      <<"2", "9", ".", "0", "2">>,      \* 29.02
      <<"5", ".", "3">> }               \* 5.3, not in the 02.01 layout

TotalDates ==
    { <<"3", "1", ".", "1", "2", ".", "2", "0", "2", "0">>,   \* 31.12.2020
      <<"0", "1", ".", "0", "3", ".", "2", "0", "2", "0">>,   \* 01.03.2020
      <<"3", "1", ".", "1", "2", ".", "9", "9", "9", "9">> }  \* 31.12.9999

ChangeAmounts == {-5, 5}
TotalAmounts == {0, 5, 10}

ConvOps ==
    {Op(d, <<"C">>, 100, v, TRUE, FALSE) : d \in ChangeDates, v \in ChangeAmounts}
    \cup
    {Op(d, <<"S">>, -1, v, TRUE, TRUE) : d \in TotalDates, v \in TotalAmounts}

InitConv ==
    /\ pc = "ready"
    /\ ops \in SeqsUpTo(ConvOps, MaxOps)
    /\ values = <<>>
    /\ err = "nil"
    /\ DedupIdle /\ ParseIdle /\ BatchIdle /\ WalkIdle

Convert ==
    /\ pc = "ready"
    /\ LET r == convertOpsToValues(ops)
       IN values' = r.values /\ err' = r.err
    /\ pc' = "done"
    /\ UNCHANGED <<ops, dedupVars, parseVars, batchVars, walkVars>>

NextConv == Convert

SpecConv == InitConv /\ [][NextConv]_vars

Converted == pc = "done" /\ err = "nil"

\* C1: when convertOpsToValues succeeds there is one Value per record, in
\* input order; after a change-record the balance has moved by its amount,
\* at a total-record the balance is the stated amount, and so the last
\* balance is the amount of the last total-record.
C1_Reconciled ==
    Converted =>
        /\ Len(values) = Len(ops)
        /\ \A i \in 1..Len(ops) : values[i].Source = ops[i].Source
        /\ \A i \in 2..Len(ops) :
              IF ops[i].IsTotal
              THEN values[i].Value = ops[i].Value
              ELSE values[i].Value - values[i - 1].Value = ops[i].Value
        /\ values[Len(values)].Value = ops[Len(ops)].Value

C1_Witness ==
    /\ Converted
    /\ Len(ops) = 3
    /\ ~ops[2].IsTotal
    /\ ops[3].IsTotal
    /\ values[3].Value = 10

\* C2: convertOpsToValues fails and returns no Value when the sequence has
\* fewer than two records, or starts or ends with a change-record.
C2_BoundaryFailure ==
    (/\ pc = "done"
     /\ \/ Len(ops) < 2
        \/ ~ops[1].IsTotal
        \/ ~ops[Len(ops)].IsTotal)
    => (err # "nil" /\ values = <<>>)

C2_Witness ==
    /\ pc = "done"
    /\ Len(ops) = 3
    /\ ops[1].IsTotal
    /\ ~ops[2].IsTotal
    /\ ~ops[3].IsTotal
    /\ TimeParse(ops[1].Date).ok
    /\ err = "last operation is not an account record"
    /\ values = <<>>

\* the day and month a change-record's date states
DayOf(date) == Atoi(SubSeq(date, 1, 2))
MonthOf(date) == Atoi(SubSeq(date, 4, 5))

\* C4: the date of a change-record is its day and month in the year of the
\* Value before it, or in the next year when that would fall strictly
\* before the date of the Value before it; it is never earlier than the
\* date of the Value before it.
C4_DateResolved ==
    Converted =>
        \A i \in 2..Len(ops) :
            ~ops[i].IsTotal =>
                LET prev == values[i - 1].Date
                    same == [ok |-> TRUE, y |-> prev.y,
                             m |-> MonthOf(ops[i].Date), d |-> DayOf(ops[i].Date)]
                IN /\ values[i].Date.d = same.d
                   /\ values[i].Date.m = same.m
                   /\ values[i].Date.y =
                         IF After(prev, same) THEN prev.y + 1 ELSE prev.y
                   /\ ~After(prev, values[i].Date)

\* 02.01 after 31.12.2020 is 2021-01-02
C4_Witness ==
    /\ Converted
    /\ Len(ops) = 3
    /\ ~ops[2].IsTotal
    /\ values[1].Date = [ok |-> TRUE, y |-> 2020, m |-> 12, d |-> 31]
    /\ ops[2].Date = <<"0", "2", ".", "0", "1">>
    /\ values[2].Date = [ok |-> TRUE, y |-> 2021, m |-> 1, d |-> 2]

RECURSIVE RunningTotal(_)
\* the first record's amount plus the amounts of the change-records up to
\* record i
RunningTotal(i) ==
    IF i = 1 THEN ops[1].Value
    ELSE RunningTotal(i - 1) + (IF ops[i].IsTotal THEN 0 ELSE ops[i].Value)

\* some total-record states another amount than the running total
SomeTotalDiffers ==
    \E i \in 1..Len(ops) : ops[i].IsTotal /\ ops[i].Value # RunningTotal(i)

RECURSIVE DateAt(_)
\* the date of record i: a total-record's own date, a change-record's day
\* and month in the year of the date before it, or the next year when that
\* falls before it; not ok when it, or a date before it, does not parse
DateAt(i) ==
    IF ops[i].IsTotal THEN TimeParse(ops[i].Date)
    ELSE LET prev == DateAt(i - 1)
             same == TimeParse(ops[i].Date \o <<".">> \o FmtD(prev.y))
         IN IF ~prev.ok THEN NoDate
            ELSE IF same.ok /\ After(prev, same)
            THEN TimeParse(ops[i].Date \o <<".">> \o FmtD(prev.y + 1))
            ELSE same

AllDatesParse == \A i \in 1..Len(ops) : DateAt(i).ok

StartsAndEndsWithTotal ==
    Len(ops) >= 2 /\ ops[1].IsTotal /\ ops[Len(ops)].IsTotal

\* C11: for a sequence that starts and ends with a total-record, the
\* balances of a successful conversion are the first record's amount plus
\* the change-records' amounts so far; when a total-record states another
\* amount than that running total the conversion fails and returns no
\* Value; when every total-record matches and all dates parse it succeeds.
C11_RunningTotal ==
    (pc = "done" /\ StartsAndEndsWithTotal) =>
        /\ SomeTotalDiffers => (err # "nil" /\ values = <<>>)
        /\ (~SomeTotalDiffers /\ AllDatesParse) => err = "nil"
        /\ err = "nil" =>
              /\ Len(values) = Len(ops)
              /\ \A i \in 1..Len(ops) : values[i].Value = RunningTotal(i)

\* a last total-record that does not match, after a change-record that was
\* converted: the two Values computed so far are not returned
C11_Witness ==
    /\ pc = "done"
    /\ Len(ops) = 3
    /\ StartsAndEndsWithTotal
    /\ ~ops[2].IsTotal
    /\ DateAt(2).ok
    /\ ops[3].Value # RunningTotal(3)
    /\ err = "running total does not match account record"
    /\ values = <<>>

\* a sequence whose totals all match and whose dates all parse
C11_Succeeds ==
    /\ Converted
    /\ Len(ops) = 3
    /\ ~ops[2].IsTotal
    /\ ~SomeTotalDiffers
    /\ AllDatesParse

-----------------------------------------------------------------------------
(* extractPDFOps: deduplication across the pages of one report *)

\* fmt.Sprintf("%f", v) of an int64: the verb does not fit the type
FmtF(v) ==
    <<"%", "!", "f", "(", "i", "n", "t", "6", "4", "=">> \o FmtD(v) \o <<")">>

hashOpNoValue(op) == op.Date \o <<"-">> \o op.Source

hashOp(op) == op.Date \o <<"-">> \o op.Source \o <<"-">> \o FmtF(op.Value)

RECURSIVE DedupPage(_, _, _)
\* the inner loop: acc is [seen, allOps]
DedupPage(pageOps, i, acc) ==
    IF i > Len(pageOps) THEN acc
    ELSE LET h == hashOp(pageOps[i])
         IN IF h \in acc.seen
            THEN DedupPage(pageOps, i + 1, acc)
            ELSE DedupPage(pageOps, i + 1,
                           [seen |-> acc.seen \cup {h},
                            allOps |-> Append(acc.allOps, pageOps[i])])

RECURSIVE DedupPages(_, _, _)
DedupPages(pgs, i, acc) ==
    IF i > Len(pgs) THEN acc
    ELSE DedupPages(pgs, i + 1, DedupPage(pgs[i], 1, acc))

\* every page is taken as extractOps returned it, without error
extractPDFOps(pgs) == DedupPages(pgs, 1, [seen |-> {}, allOps |-> <<>>]).allOps

MaxRecords == 4

Date0503 == <<"0", "5", ".", "0", "3">>
Date0603 == <<"0", "6", ".", "0", "3">>

DedupOps ==
    { Op(Date0503, <<"A">>, 100, 5, TRUE, FALSE),
      Op(Date0503, <<"A">>, 250, 5, TRUE, FALSE),
      Op(Date0503, <<"A">>, 100, -5, TRUE, FALSE),
      Op(Date0503, <<"A", "-">>, 100, 5, TRUE, FALSE),
      Op(Date0603, <<"A">>, 100, 5, TRUE, FALSE) }

RECURSIVE SplitAt(_, _, _)
\* the pages of a report: flat cut after the positions of cuts
SplitAt(flat, cuts, from) ==
    IF from > Len(flat) THEN <<>>
    ELSE LET next == {c \in cuts : c >= from}
             to == IF next = {} THEN Len(flat)
                   ELSE CHOOSE c \in next : \A x \in next : c <= x
         IN <<SubSeq(flat, from, to)>> \o SplitAt(flat, cuts, to + 1)

RECURSIVE Flatten(_)
Flatten(pgs) ==
    IF Len(pgs) = 0 THEN <<>> ELSE Head(pgs) \o Flatten(Tail(pgs))

InitDedup ==
    /\ pc = "ready"
    /\ \E flat \in SeqsUpTo(DedupOps, MaxRecords) :
         \E cuts \in SUBSET (1..(Len(flat) - 1)) :
            pages = SplitAt(flat, cuts, 1)
    /\ allOps = <<>>
    /\ err = "nil"
    /\ ConvIdle /\ ParseIdle /\ BatchIdle /\ WalkIdle

ExtractPDFOps ==
    /\ pc = "ready"
    /\ allOps' = extractPDFOps(pages)
    /\ pc' = "done"
    /\ UNCHANGED <<err, pages, convVars, parseVars, batchVars, walkVars>>

NextDedup == ExtractPDFOps

SpecDedup == InitDedup /\ [][NextDedup]_vars

\* the records of all pages, in page order
Document == Flatten(pages)

\* the positions of Document that no earlier position equals in
\* (date, source label, amount)
FirstOccurrences ==
    {i \in 1..Len(Document) :
        \A j \in 1..(i - 1) :
            <<Document[j].Date, Document[j].Source, Document[j].Value>>
            # <<Document[i].Date, Document[i].Source, Document[i].Value>>}

\* the position in Document of the k-th first occurrence
NthFirst(k) ==
    CHOOSE i \in FirstOccurrences :
        Cardinality({j \in FirstOccurrences : j <= i}) = k

\* C3: extractPDFOps returns the first occurrences of the concatenated
\* pages, in input order, two records being duplicates exactly when they
\* have the same date, source label and amount.
C3_FirstOccurrences ==
    pc = "done" =>
        /\ Len(allOps) = Cardinality(FirstOccurrences)
        /\ \A k \in 1..Len(allOps) : allOps[k] = Document[NthFirst(k)]

\* a second page that repeats the first page verbatim
C3_Witness ==
    /\ pc = "done"
    /\ Len(pages) = 2
    /\ Len(pages[1]) = 2
    /\ pages[2] = pages[1]
    /\ pages[1][1].Value # pages[1][2].Value
    /\ allOps = pages[1]

TOTAL_CHARS == <<"T", "O", "T", "A", "L">>
DES_CHARS == <<"D", "E", "S">>
MONTANTS_CHARS == <<"M", "O", "N", "T", "A", "N", "T", "S">>

\* 31.12.2020
TOTAL_DATE == <<"3", "1", ".", "1", "2", ".", "2", "0", "2", "0">>

-----------------------------------------------------------------------------
(* Lines of a page *)

Pad2(n) == <<DigitChars[(n \div 10) + 1], DigitChars[(n % 10) + 1]>>

Pad3(n) == <<DigitChars[(n \div 100) + 1]>> \o Pad2(n % 100)

\* the amount n (in cents) written "H,LL" from column col on
Amount3(n, col) ==
    <<Word(col, Itoa(n \div 100)), Word(col + 10, <<",">>),
      Word(col + 20, Pad2(n % 100))>>

\* the amount n (in cents) written "T.HHH,LL" from column col on
Amount5(n, col) ==
    <<Word(col, Itoa(n \div 100000)), Word(col + 10, <<".">>),
      Word(col + 20, Pad3((n \div 100) % 1000)), Word(col + 30, <<",">>),
      Word(col + 40, Pad2(n % 100))>>

AmountWords(n, form, col) == IF form = 5 THEN Amount5(n, col) ELSE Amount3(n, col)

\* the amount the layout gives n written from column col on
Signed(n, col) == IF col < SignThreshold THEN 0 - n ELSE n

DateWords(day, month) ==
    <<Word(50, day), Word(60, <<".">>), Word(70, month)>>

Day0503 == DateWords(<<"0", "5">>, <<"0", "3">>)
Day0603 == DateWords(<<"0", "6">>, <<"0", "3">>)

Source(col, str) == <<Word(col, str)>>

TotalWords == <<Word(50, SOLDE_CHARS), Word(100, TOTAL_DATE)>>

DateOnlyLines == {Line(Day0503)}

SourceOnlyLines ==
    {Line(Source(100, <<"B">>)), Line(Source(0, <<"Z">>))}

AmountOnlyLines ==
    {Line(Amount3(1250, 450)), Line(Amount3(705, 550)), Line(Amount5(123456, 450))}

PageLines ==
    DateOnlyLines \cup SourceOnlyLines \cup AmountOnlyLines \cup
    { Line(Day0503 \o Source(100, <<"A">>)),
      Line(Day0503 \o Source(100, <<"A">>) \o Amount3(1250, 450)),
      Line(Day0603 \o Amount3(300, 450)),
      Line(Day0603 \o Source(250, <<"N">>)),
      Line(Source(100, <<"B">>) \o Amount3(705, 550)),
      Line(TotalWords \o Amount3(1000, 550)),
      Line(TotalWords),
      Line(Source(100, <<"X">>) \o Amount3(100, 450) \o Amount3(200, 550)),
      Line(<<Word(50, TOTAL_CHARS), Word(80, DES_CHARS), Word(110, MONTANTS_CHARS)>>
           \o Amount3(100, 450)),
      Line(<<Word(50, MONTANT_AUTORISATION)>>) }

-----------------------------------------------------------------------------
(* Specification of one page stream: parseOps line by line, then          *)
(* filterOnSourceColumn as extractOps applies it                           *)

MaxLines == 3

InitParse ==
    /\ pc = "parse"
    /\ lines \in SeqsUpTo(PageLines, MaxLines)
    /\ lineIdx = 1
    /\ parsed = <<>>
    /\ lineOp = NoOp
    /\ stripped = NoStrip
    /\ kept = <<>>
    /\ err = "nil"
    /\ ConvIdle /\ DedupIdle /\ BatchIdle /\ WalkIdle

\* one iteration of the loop of parseOps
ParseLine ==
    /\ pc = "parse"
    /\ lineIdx <= Len(lines)
    /\ LET r == parseOpsStep(lines[lineIdx], parsed)
       IN /\ parsed' = r.ops
          /\ lineOp' = r.op
          /\ lineIdx' = lineIdx + 1
          /\ pc' = IF r.ctl = "continue" THEN "parse" ELSE "parsed"
          /\ err' = IF r.ctl = "error" THEN "could not parse total line" ELSE err
    /\ UNCHANGED <<lines, stripped, kept, convVars, dedupVars, batchVars, walkVars>>

\* the loop is over: return ops, nil
ParseReturn ==
    /\ pc = "parse"
    /\ lineIdx > Len(lines)
    /\ pc' = "parsed"
    /\ UNCHANGED <<err, parseVars, convVars, dedupVars, batchVars, walkVars>>

\* extractOps: return filterOnSourceColumn(allOps), err
Filter ==
    /\ pc = "parsed"
    /\ kept' = filterOnSourceColumn(parsed)
    /\ pc' = "done"
    /\ UNCHANGED <<err, lines, parsed, lineIdx, lineOp, stripped,
                   convVars, dedupVars, batchVars, walkVars>>

NextParse == ParseLine \/ ParseReturn \/ Filter

SpecParse == InitParse /\ [][NextParse]_vars

\* C5: a line that gives a change-record a date and no source text, then a
\* line with only source text, then a line with only a trailing amount,
\* parse into exactly one change-record with that date, the source text of
\* the second line and the amount of the third.
C5_ThreeLineMerge ==
    (/\ pc \in {"parsed", "done"}
     /\ Len(lines) = 3
     /\ lines[1] \in DateOnlyLines
     /\ lines[2] \in SourceOnlyLines
     /\ lines[3] \in AmountOnlyLines)
    => /\ Len(parsed) = 1
       /\ ~parsed[1].IsTotal
       /\ parsed[1].Date = stripDate(lines[1].Words).date
       /\ parsed[1].Source = lines[2].Value
       /\ parsed[1].HasValue
       /\ \A n \in {1250, 705, 123456}, form \in {3, 5}, col \in {450, 550} :
             lines[3] = Line(AmountWords(n, form, col))
                => parsed[1].Value = Signed(n, col)

\* the last record parseOps appended, when there is one
LastOp(o) == o[Len(o)]

\* C9: in parseOps a record without a date never creates an entry, a record
\* with a date is appended as it is, and a dateless record's amount is
\* adopted by the last entry only when that entry has no amount yet: an
\* amount the entry already holds is never overwritten.
C9_MergePolicy ==
    [][(pc = "parse" /\ lineIdx' = lineIdx + 1 /\ lineOp'.kind = "op") =>
         IF lineOp'.op.Date # <<>>
         THEN parsed' = Append(parsed, lineOp'.op)
         ELSE /\ Len(parsed') = Len(parsed)
              /\ Len(parsed) > 0 =>
                    IF LastOp(parsed).HasValue
                    THEN /\ LastOp(parsed').HasValue
                         /\ LastOp(parsed').Value = LastOp(parsed).Value
                    ELSE lineOp'.op.HasValue =>
                            /\ LastOp(parsed').HasValue
                            /\ LastOp(parsed').Value = lineOp'.op.Value]_vars

\* a record has a source column when it is a change-record that had a
\* source fragment left
HasSourceColumn(op) == ~op.IsTotal /\ op.Source # <<>>

\* occurrences of column c among the first i records
ColumnCount(o, c, i) ==
    Cardinality({j \in 1..i : HasSourceColumn(o[j]) /\ o[j].SourceCol = c})

SourceColumns(o) ==
    {o[j].SourceCol : j \in {k \in 1..Len(o) : HasSourceColumn(o[k])}}

\* where a left-to-right scan sees column c reach the count n
ReachedAt(o, c, n) ==
    CHOOSE i \in 1..Len(o) :
        ColumnCount(o, c, i) = n /\ \A j \in 1..(i - 1) : ColumnCount(o, c, j) < n

\* the most frequent column; on equal counts the one that got there first
DominantColumn(o) ==
    IF SourceColumns(o) = {} THEN -1
    ELSE LET count(c) == ColumnCount(o, c, Len(o))
             best == {c \in SourceColumns(o) :
                         \A x \in SourceColumns(o) : count(x) <= count(c)}
         IN CHOOSE c \in best :
               \A x \in best : ReachedAt(o, c, count(c)) <= ReachedAt(o, x, count(x))

\* C7: filterOnSourceColumn keeps, in order, exactly the records without a
\* source column (total-records, and change-records that had no source
\* fragment left) and the change-records in the dominant column.
C7_FilterKeeps ==
    pc = "done" =>
        LET dominant == DominantColumn(parsed)
            Keep(op) == ~HasSourceColumn(op) \/ op.SourceCol = dominant
        IN kept = SelectSeq(parsed, Keep)

-----------------------------------------------------------------------------
(* Specification of the amount grammar: stripValue and parseOpLine on one  *)
(* line that ends with a written amount                                     *)

WrittenAmounts == {0, 5, 1250, 99999, 100000, 123456}

AmountColumns == {450, 480, 550}

AmountForms == {3, 5}

LinePrefixes ==
    {<<>>, Source(100, <<"A">>), Day0503, Day0503 \o Source(100, <<"A">>)}

\* an amount is printed with a thousands group from 1.000,00 on
Writable(n, form) == form = 5 => n >= 100000

InitAmount ==
    /\ pc = "ready"
    /\ \E n \in WrittenAmounts, form \in AmountForms, col \in AmountColumns,
          prefix \in LinePrefixes :
            /\ Writable(n, form)
            /\ lines = <<Line(prefix \o AmountWords(n, form, col))>>
    /\ lineIdx = 1
    /\ parsed = <<>>
    /\ lineOp = NoOp
    /\ stripped = NoStrip
    /\ kept = <<>>
    /\ err = "nil"
    /\ ConvIdle /\ DedupIdle /\ BatchIdle /\ WalkIdle

ParseAmountLine ==
    /\ pc = "ready"
    /\ stripped' = stripValue(lines[1].Words)
    /\ lineOp' = parseOpLine(lines[1])
    /\ pc' = "done"
    /\ UNCHANGED <<err, lines, parsed, lineIdx, kept,
                   convVars, dedupVars, batchVars, walkVars>>

NextAmount == ParseAmountLine

SpecAmount == InitAmount /\ [][NextAmount]_vars

\* C6: an amount n written "H,LL" or "T.HHH,LL" at the end of a line is
\* recovered by stripValue and by parseOpLine, which consume its three or
\* five fragments and nothing else, and is negated exactly when its first
\* fragment is left of column 500.
C6_AmountRoundTrip ==
    pc = "done" =>
        \A n \in WrittenAmounts, form \in AmountForms, col \in AmountColumns,
           prefix \in LinePrefixes :
            lines = <<Line(prefix \o AmountWords(n, form, col))>> =>
                /\ stripped.ok
                /\ stripped.v = Signed(n, col)
                /\ stripped.words = prefix
                /\ lineOp.kind = "op"
                /\ lineOp.op.HasValue
                /\ lineOp.op.Value = Signed(n, col)
                /\ lineOp.op.Source = joinWords(stripDate(prefix).words)

\* the part of C6 that holds: stripValue alone
C6_StripValueOnly ==
    pc = "done" =>
        \A n \in WrittenAmounts, form \in AmountForms, col \in AmountColumns,
           prefix \in LinePrefixes :
            lines = <<Line(prefix \o AmountWords(n, form, col))>> =>
                /\ stripped.ok
                /\ stripped.v = Signed(n, col)
                /\ stripped.words = prefix

-----------------------------------------------------------------------------
(* Specification of extractFileValues: a batch of reports *)

MaxFiles == 3

T2020 == <<"3", "1", ".", "1", "2", ".", "2", "0", "2", "0">>
D0201 == <<"0", "2", ".", "0", "1">>

\* a report that reconciles and one whose last total does not match
GoodReport ==
    <<Op(T2020, <<"S">>, -1, 0, TRUE, TRUE), Op(D0201, <<"C">>, 100, 5, TRUE, FALSE),
      Op(T2020, <<"S">>, -1, 5, TRUE, TRUE)>>

BadReport ==
    <<Op(T2020, <<"S">>, -1, 0, TRUE, TRUE), Op(D0201, <<"C">>, 100, 5, TRUE, FALSE),
      Op(T2020, <<"S">>, -1, 10, TRUE, TRUE)>>

\* a file: whether pdf.Open and extractPDFOps succeed on it, and the records
\* extractPDFOps returns then
Files ==
    { [opens |-> FALSE, extracts |-> FALSE, ops |-> <<>>],
      [opens |-> TRUE, extracts |-> FALSE, ops |-> <<>>],
      [opens |-> TRUE, extracts |-> TRUE, ops |-> GoodReport],
      [opens |-> TRUE, extracts |-> TRUE, ops |-> BadReport] }

InitBatch ==
    /\ pc = "loop"
    /\ files \in SeqsUpTo(Files, MaxFiles)
    /\ fileIdx = 1
    /\ failed = 0
    /\ allValues = <<>>
    /\ err = "nil"
    /\ ConvIdle /\ DedupIdle /\ ParseIdle /\ WalkIdle

\* one iteration of the loop over files
ProcessFile ==
    /\ pc = "loop"
    /\ fileIdx <= Len(files)
    /\ LET file == files[fileIdx]
           r == convertOpsToValues(file.ops)
       IN IF ~file.opens
          THEN \* return nil, err
               /\ pc' = "done"
               /\ err' = "open"
               /\ allValues' = <<>>
               /\ UNCHANGED <<fileIdx, failed>>
          ELSE IF ~file.extracts \/ r.err # "nil"
          THEN \* fail(file, err); continue
               /\ failed' = failed + 1
               /\ fileIdx' = fileIdx + 1
               /\ UNCHANGED <<pc, err, allValues>>
          ELSE /\ allValues' = allValues \o r.values
               /\ fileIdx' = fileIdx + 1
               /\ UNCHANGED <<pc, err, failed>>
    /\ UNCHANGED <<files, convVars, dedupVars, parseVars, walkVars>>

\* after the loop: "%d reports failed" when failed > 0
BatchReturn ==
    /\ pc = "loop"
    /\ fileIdx > Len(files)
    /\ pc' = "done"
    /\ IF failed > 0
       THEN err' = "reports failed" /\ allValues' = <<>>
       ELSE UNCHANGED <<err, allValues>>
    /\ UNCHANGED <<files, fileIdx, failed, convVars, dedupVars, parseVars, walkVars>>

NextBatch == ProcessFile \/ BatchReturn

SpecBatch == InitBatch /\ [][NextBatch]_vars

\* the documents of the batch that fail at some stage
FailingFiles ==
    {i \in 1..Len(files) :
        \/ ~files[i].opens
        \/ ~files[i].extracts
        \/ convertOpsToValues(files[i].ops).err # "nil"}

\* C8: a failure at any stage of one document aborts only that document:
\* when the batch returns every document has been processed, the failures
\* have been counted, and the batch fails, naming that count, exactly when
\* at least one document failed.
C8_FailureIsolated ==
    pc = "done" =>
        /\ fileIdx = Len(files) + 1
        /\ failed = Cardinality(FailingFiles)
        /\ (err # "nil") <=> (FailingFiles # {})
        /\ err \in {"nil", "reports failed"}

-----------------------------------------------------------------------------
(* Specification of walk: the activations of walkNode on a graph *)

MaxNodes == 3

Nodes == 1..MaxNodes

Root == 1

RECURSIVE Sorted(_)
\* the members of a set of nodes, in increasing order
Sorted(S) ==
    IF S = {} THEN <<>>
    ELSE LET m == CHOOSE x \in S : \A y \in S : x <= y
         IN <<m>> \o Sorted(S \ {m})

\* v.Keys() / 0..v.Len()-1: the entries of node n, by identity
Kids(n) == graph[n]

Frame(n) == [node |-> n, next |-> 1]

Top == stack[Len(stack)]

\* the path of the activations, root first
Path == [i \in 1..Len(stack) |-> stack[i].node]

InitWalk ==
    /\ pc = "start"
    /\ \E edges \in SUBSET (Nodes \X Nodes) :
          graph = [n \in Nodes |-> Sorted({m \in Nodes : <<n, m>> \in edges})]
    /\ stack = <<Frame(Root)>>
    /\ seen = {}
    /\ visits = <<>>
    /\ err = "nil"
    /\ ConvIdle /\ DedupIdle /\ ParseIdle /\ BatchIdle

\* walkNode(root, 0): callback(root) returns nil
Start ==
    /\ pc = "start"
    /\ visits' = <<Path>>
    /\ pc' = "walk"
    /\ UNCHANGED <<err, graph, stack, seen, convVars, dedupVars, parseVars, batchVars>>

\* walkNode(root, 0): callback(root) returns an error
StartFails ==
    /\ pc = "start"
    /\ visits' = <<Path>>
    /\ stack' = <<>>
    /\ err' = "callback"
    /\ pc' = "done"
    /\ UNCHANGED <<graph, seen, convVars, dedupVars, parseVars, batchVars>>

\* delete(seen, id)
SeenKept(s, id) == s

SeenAfterReturn(s, id) == s \ {id}

\* the identity of the next entry of the top activation
NextId == Kids(Top.node)[Top.next]

\* the entry is not in seen: seen[id] = struct{}{}; walkNode(child), whose
\* callback returns nil
Descend ==
    /\ pc = "walk"
    /\ Top.next <= Len(Kids(Top.node))
    /\ NextId \notin seen
    /\ seen' = seen \cup {NextId}
    /\ stack' = Append([stack EXCEPT ![Len(stack)].next = Top.next + 1],
                       Frame(NextId))
    /\ visits' = Append(visits, Append(Path, NextId))
    /\ UNCHANGED <<pc, err, graph, convVars, dedupVars, parseVars, batchVars>>

\* the same, but the callback returns an error, which every activation
\* forwards to its caller
DescendFails ==
    /\ pc = "walk"
    /\ Top.next <= Len(Kids(Top.node))
    /\ NextId \notin seen
    /\ visits' = Append(visits, Append(Path, NextId))
    /\ stack' = <<>>
    /\ seen' = {}
    /\ err' = "callback"
    /\ pc' = "done"
    /\ UNCHANGED <<graph, convVars, dedupVars, parseVars, batchVars>>

\* the entry is in seen: continue
Skip ==
    /\ pc = "walk"
    /\ Top.next <= Len(Kids(Top.node))
    /\ NextId \in seen
    /\ stack' = [stack EXCEPT ![Len(stack)].next = Top.next + 1]
    /\ UNCHANGED <<pc, err, graph, seen, visits, convVars, dedupVars, parseVars, batchVars>>

\* walkNode returns nil to its caller, which deletes the identity
Return ==
    /\ pc = "walk"
    /\ Top.next > Len(Kids(Top.node))
    /\ stack' = SubSeq(stack, 1, Len(stack) - 1)
    /\ IF Len(stack) > 1
       THEN seen' = SeenAfterReturn(seen, Top.node) /\ pc' = pc
       ELSE seen' = seen /\ pc' = "done"
    /\ UNCHANGED <<err, graph, visits, convVars, dedupVars, parseVars, batchVars>>

NextWalk == Start \/ StartFails \/ Descend \/ DescendFails \/ Skip \/ Return

\* walk runs to completion: nothing suspends it
SpecWalk == InitWalk /\ [][NextWalk]_vars /\ WF_vars(NextWalk)

\* the root-to-node paths of at most n nodes
PathsUpTo(n) == UNION {[1..k -> Nodes] : k \in 1..n}

\* the paths from the root along entries of the graph on which no identity
\* below the root occurs twice
ScopedPaths ==
    {p \in PathsUpTo(MaxNodes + 1) :
        /\ p[1] = Root
        /\ \A i \in 1..(Len(p) - 1) : \E k \in 1..Len(graph[p[i]]) : graph[p[i]][k] = p[i + 1]
        /\ \A i, j \in 2..Len(p) : i # j => p[i] # p[j]}

\* the identities below the root on the current path are distinct and are
\* exactly seen; an unfinished traversal can take a step; a finished one
\* has visited every scoped path once
WalkScoped ==
    /\ pc \in {"start", "walk"} =>
          /\ seen = {stack[i].node : i \in 2..Len(stack)}
          /\ \A i, j \in 2..Len(stack) : i # j => stack[i].node # stack[j].node
          /\ ENABLED NextWalk
    /\ (pc = "done" /\ err = "nil") =>
          /\ {visits[i] : i \in 1..Len(visits)} = ScopedPaths
          /\ \A i, j \in 1..Len(visits) : i # j => visits[i] # visits[j]

RECURSIVE Pow(_, _)
Pow(b, e) == IF e = 0 THEN 1 ELSE b * Pow(b, e - 1)

RECURSIVE Pending(_)
\* the work left to the activations 1..i: an activation at depth i weighs
\* its unexamined entries, plus one for its return, more than everything
\* that can be pushed above it
Pending(i) ==
    IF i = 0 THEN 0
    ELSE Pending(i - 1)
         + (Len(Kids(stack[i].node)) - stack[i].next + 2)
           * Pow(MaxNodes + 2, MaxNodes + 2 - i)

\* what is left of the traversal, as a natural number
Variant ==
    IF stack = <<>> THEN 0
    ELSE Pending(Len(stack)) + (IF pc = "start" THEN 1 ELSE 0)

WalkTerminates == <>(pc = "done")

====
